---- MODULE Spec2Model ----
(***************************************************************************)
(* A model of geoloc_util.py: a command-line tool that resolves US         *)
(* city/state strings and zip codes through the OpenWeather geocoding API. *)
(*                                                                         *)
(* Text that the program inspects character by character (the location     *)
(* arguments) is a sequence of characters; text that it only copies or     *)
(* concatenates (messages, payload fields, output lines) is a string.      *)
(***************************************************************************)
EXTENDS Integers, Sequences, FiniteSets, TLC

(***************************************************************************)
(* Bounds of the model.                                                    *)
(***************************************************************************)
MaxLen == 6         \* longest location string given to get_location_info (SpecClassify)
MaxInputs == 2      \* most --locations arguments of a run
MinStatus == 200    \* smallest HTTP status code of a response (SpecFetch)
MaxStatus == 999    \* largest HTTP status code of a response (SpecFetch)

(***************************************************************************)
(* Python values: None, numbers, strings, lists and dicts, as the JSON     *)
(* decoder and the program build them.  One record shape for all of them.  *)
(***************************************************************************)
NoneV == [kind |-> "none", s |-> "", n |-> 0, items |-> <<>>, fields |-> <<>>]
StrV(str) == [kind |-> "str", s |-> str, n |-> 0, items |-> <<>>, fields |-> <<>>]
NumV(num) == [kind |-> "num", s |-> "", n |-> num, items |-> <<>>, fields |-> <<>>]
ListV(its) == [kind |-> "list", s |-> "", n |-> 0, items |-> its, fields |-> <<>>]
DictV(fs) == [kind |-> "dict", s |-> "", n |-> 0, items |-> <<>>, fields |-> fs]

\* Python truth value of a value (`not data`, `if result.get("state")`).
Truthy(v) ==
    CASE v.kind = "none" -> FALSE
      [] v.kind = "num"  -> v.n # 0
      [] v.kind = "str"  -> v.s # ""
      [] v.kind = "list" -> Len(v.items) > 0
      [] v.kind = "dict" -> DOMAIN v.fields # {}

\* The outcome of evaluating Python code: a value, or an exception raised.
Return(v) == [raised |-> FALSE, val |-> v, exc |-> "none"]
Raise(e) == [raised |-> TRUE, val |-> NoneV, exc |-> e]

\* str(n) for an integer, as an f-string renders it.
DigitChars == <<"0", "1", "2", "3", "4", "5", "6", "7", "8", "9">>
RECURSIVE NatToStr(_)
NatToStr(n) ==
    IF n < 10 THEN DigitChars[n + 1]
    ELSE NatToStr(n \div 10) \o DigitChars[(n % 10) + 1]
IntToStr(n) == IF n < 0 THEN "-" \o NatToStr(-n) ELSE NatToStr(n)

\* str(v) of a value placed in an f-string (dicts and lists are never
\* formatted by the program's reachable records in this model).
PyStr(v) ==
    CASE v.kind = "none" -> "None"
      [] v.kind = "num"  -> IntToStr(v.n)
      [] v.kind = "str"  -> v.s
      [] OTHER           -> "<object>"

(***************************************************************************)
(* Characters of a location argument.  "sup2" stands for U+00B2            *)
(* (superscript two), a character for which str.isdigit() is true although *)
(* it is not one of 0-9.                                                   *)
(***************************************************************************)
AsciiDigits == {"0", "7"}
UnicodeDigits == {"sup2"}
Whitespace == {" "}
Letters == {"a"}
Alphabet == AsciiDigits \cup UnicodeDigits \cup Whitespace \cup Letters

\* str.strip(): drop leading and trailing whitespace.
RECURSIVE LStrip(_)
LStrip(s) ==
    IF Len(s) > 0 /\ Head(s) \in Whitespace THEN LStrip(Tail(s)) ELSE s
RECURSIVE RStrip(_)
RStrip(s) ==
    IF Len(s) > 0 /\ s[Len(s)] \in Whitespace
    THEN RStrip(SubSeq(s, 1, Len(s) - 1)) ELSE s
Strip(s) == RStrip(LStrip(s))

\* str.isdigit(): non-empty and every character has the Unicode digit property.
IsDigit(s) ==
    /\ Len(s) > 0
    /\ \A i \in 1..Len(s) : s[i] \in AsciiDigits \cup UnicodeDigits

(***************************************************************************)
(* Python operations the program applies to decoded payloads.              *)
(***************************************************************************)
\* data[0]
Subscript0(data) ==
    CASE data.kind = "list" ->
            IF Len(data.items) > 0 THEN Return(data.items[1]) ELSE Raise("IndexError")
      [] data.kind = "dict" -> Raise("KeyError")    \* JSON object keys are strings, never 0
      [] data.kind \in {"num", "none"} -> Raise("TypeError")

\* key in data
Contains(key, data) ==
    CASE data.kind = "dict" -> Return(key \in DOMAIN data.fields)
      [] data.kind = "list" ->
            Return(\E i \in 1..Len(data.items) : data.items[i] = StrV(key))
      [] data.kind \in {"num", "none"} -> Raise("TypeError")

\* data.get(key, default)
DictGet(data, key, default) ==
    IF data.kind = "dict"
    THEN Return(IF key \in DOMAIN data.fields THEN data.fields[key] ELSE default)
    ELSE Raise("AttributeError")

(***************************************************************************)
(* The exception classes of the requests library that the program's        *)
(* except clauses name, each with its ancestors (itself included), and the *)
(* built-in exceptions the payload operations raise.                       *)
(***************************************************************************)
Ancestors(e) ==
    CASE e = "ReadTimeout"      -> {"ReadTimeout", "Timeout", "RequestException"}
      [] e = "ConnectTimeout"   -> {"ConnectTimeout", "ConnectionError", "Timeout",
                                    "RequestException"}
      [] e = "ConnectionError"  -> {"ConnectionError", "RequestException"}
      [] e = "SSLError"         -> {"SSLError", "ConnectionError", "RequestException"}
      [] e = "TooManyRedirects" -> {"TooManyRedirects", "RequestException"}
      [] e = "ChunkedEncodingError" -> {"ChunkedEncodingError", "RequestException"}
      [] e = "HTTPError"        -> {"HTTPError", "RequestException"}
      [] e = "JSONDecodeError"  -> {"JSONDecodeError", "InvalidJSONError",
                                    "RequestException"}
      [] OTHER                  -> {e}   \* ValueError, KeyError, TypeError, ...

\* The exceptions requests.get raises for a failed transport.
TransportExceptions ==
    {"ReadTimeout", "ConnectTimeout", "ConnectionError", "SSLError",
     "TooManyRedirects", "ChunkedEncodingError"}

\* response.json() on a body that is not JSON raises requests' JSONDecodeError
\* (a RequestException) in requests >= 2.27 and a plain ValueError before.
JsonExceptions == {"JSONDecodeError", "ValueError"}

\* {'error': message}
ErrorRecord(msg) == DictV("error" :> StrV(msg))

(***************************************************************************)
(* What the upstream does to one GET: requests.get raises, or it returns a *)
(* response with a status code whose json() returns a value or raises.     *)
(***************************************************************************)
GetRaises(e) == [type |-> "raise", exc |-> e, status |-> 0, json |-> Raise(e)]
Response(code, js) == [type |-> "response", exc |-> "none", status |-> code, json |-> js]

\* response.raise_for_status(): raises HTTPError for 4xx/5xx status codes.
RaisesForStatus(status) == 400 <= status /\ status <= 599

\* HttpErrorMessage without its 429 branch.
HttpErrorMessage_No429(status_code) ==
    IF status_code = 401 THEN "Invalid API key"
    ELSE "API error: " \o IntToStr(status_code)

\* except requests.exceptions.HTTPError as e: the message for e.response.status_code
HttpErrorMessage(status_code) ==
    IF status_code = 401 THEN "Invalid API key"
    ELSE IF status_code = 429 THEN "API rate limit exceeded"
    ELSE "API error: " \o IntToStr(status_code)

\* ExceptClauses with the ConnectionError clause ahead of the Timeout clause.
ExceptClauses_ConnectionFirst(e, status_code) ==
    IF "ConnectionError" \in Ancestors(e)
        THEN Return(ErrorRecord("API connection failed"))
    ELSE IF "Timeout" \in Ancestors(e) THEN Return(ErrorRecord("API request timed out"))
    ELSE IF "HTTPError" \in Ancestors(e)
        THEN Return(ErrorRecord(HttpErrorMessage(status_code)))
    ELSE IF "RequestException" \in Ancestors(e)
        THEN Return(ErrorRecord("Unexpected API error"))
    ELSE Raise(e)

\* The except clauses of fetch_api_data, tried in order, on exception e raised
\* in the try block (status_code is e.response.status_code of an HTTPError).
ExceptClauses(e, status_code) ==
    IF "Timeout" \in Ancestors(e) THEN Return(ErrorRecord("API request timed out"))
    ELSE IF "ConnectionError" \in Ancestors(e)
        THEN Return(ErrorRecord("API connection failed"))
    ELSE IF "HTTPError" \in Ancestors(e)
        THEN Return(ErrorRecord(HttpErrorMessage(status_code)))
    ELSE IF "RequestException" \in Ancestors(e)
        THEN Return(ErrorRecord("Unexpected API error"))
    ELSE Raise(e)     \* no clause matches: the exception leaves fetch_api_data

\* The part of the try block after a decoded body: the empty check and the
\* selection of the payload.
SelectPayload(endpoint, data) ==
    IF ~Truthy(data) THEN Return(ErrorRecord("No data returned from API"))
    ELSE IF endpoint = "direct" THEN Subscript0(data)
    ELSE Return(data)

\* The try block of fetch_api_data: a value returned, or the exception raised.
TryBlock(endpoint, upstream) ==
    IF upstream.type = "raise" THEN Raise(upstream.exc)
    ELSE IF RaisesForStatus(upstream.status) THEN Raise("HTTPError")
    ELSE IF upstream.json.raised THEN Raise(upstream.json.exc)
    ELSE SelectPayload(endpoint, upstream.json.val)

\* fetch_api_data(endpoint, params) against an upstream behaving as `upstream`.
FetchApiData(endpoint, upstream) ==
    LET t == TryBlock(endpoint, upstream)
    IN  IF t.raised THEN ExceptClauses(t.exc, upstream.status) ELSE t

(***************************************************************************)
(* The queries.                                                            *)
(***************************************************************************)
CommaUS == <<",", "U", "S">>

\* fetch_location_by_city_state: the endpoint and params of its request.
CityStateRequest(query, key) ==
    [endpoint |-> "direct",
     params |-> ("q" :> (query \o CommaUS) @@ "limit" :> 1 @@ "appid" :> key)]

\* fetch_location_by_zip: the endpoint and params of its request.
ZipRequest(zip_code, key) ==
    [endpoint |-> "zip",
     params |-> ("zip" :> (zip_code \o CommaUS) @@ "appid" :> key)]

\* The condition of get_location_info's if, on the stripped location.
IsZip(location) == IsDigit(location) /\ Len(location) = 5

\* The request get_location_info(location) issues.
RequestOf(location, key) ==
    LET stripped == Strip(location)
    IN  IF IsZip(stripped) THEN ZipRequest(stripped, key)
        ELSE CityStateRequest(stripped, key)

\* The part of get_location_info after the fetch: pass an error through, or
\* build the location record.
Normalize(data) ==
    LET isErr == Contains("error", data)
        name == DictGet(data, "name", StrV(""))
        lat == DictGet(data, "lat", StrV(""))
        lon == DictGet(data, "lon", StrV(""))
        state == DictGet(data, "state", StrV(""))
        country == DictGet(data, "country", StrV("US"))
    IN  IF isErr.raised THEN Raise(isErr.exc)
        ELSE IF isErr.val THEN Return(data)
        ELSE IF name.raised THEN Raise(name.exc)
        ELSE Return(DictV("name" :> name.val @@ "lat" :> lat.val @@ "lon" :> lon.val
                          @@ "state" :> state.val @@ "country" :> country.val))

\* get_location_info(location) against an upstream behaving as `upstream`.
GetLocationInfo(location, key, upstream) ==
    LET data == FetchApiData(RequestOf(location, key).endpoint, upstream)
    IN  IF data.raised THEN data ELSE Normalize(data.val)

\* result[key]
Item(result, key) ==
    IF result.kind = "dict"
    THEN IF key \in DOMAIN result.fields THEN Return(result.fields[key])
         ELSE Raise("KeyError")
    ELSE Raise("TypeError")

\* StateSegment without the test for an empty state.
StateSegment_Always(result) ==
    ", " \o PyStr(DictGet(result, "state", NoneV).val)

\* The ', {state}' segment of format_location.
StateSegment(result) ==
    LET state == DictGet(result, "state", NoneV)
    IN  IF Truthy(state.val) THEN ", " \o PyStr(state.val) ELSE ""

\* format_location(result)
FormatLocation(result) ==
    LET isErr == Contains("error", result)
        name == Item(result, "name")
        lat == Item(result, "lat")
        lon == Item(result, "lon")
        state == DictGet(result, "state", NoneV)
    IN  IF isErr.raised THEN Raise(isErr.exc)
        ELSE IF isErr.val THEN Item(result, "error")
        ELSE IF state.raised THEN Raise(state.exc)
        ELSE IF name.raised THEN Raise(name.exc)
        ELSE IF lat.raised THEN Raise(lat.exc)
        ELSE IF lon.raised THEN Raise(lon.exc)
        ELSE Return(StrV("Location: " \o PyStr(name.val) \o StateSegment(result)
                         \o " - Lat: " \o PyStr(lat.val) \o ", Lon: " \o PyStr(lon.val)))

(***************************************************************************)
(* The inputs the model draws from.                                        *)
(***************************************************************************)
\* OPENWEATHER_API_KEY: unset (os.environ.get gives None), empty, or set.
Keys == {NoneV, StrV(""), StrV("k")}
SetKey == StrV("k")

\* Payload objects of the upstream: the direct shape, the zip shape (no
\* state), and an object that carries a key named "error".
Madison ==
    "name" :> StrV("Madison") @@ "lat" :> NumV(43) @@ "lon" :> NumV(-89)
    @@ "state" :> StrV("WI") @@ "country" :> StrV("US")
ZipMadison ==
    "zip" :> StrV("53703") @@ "name" :> StrV("Madison") @@ "lat" :> NumV(43)
    @@ "lon" :> NumV(-89) @@ "country" :> StrV("US")
ErrorKeyed == "error" :> StrV("boom") @@ "name" :> StrV("Madison")

\* Decoded JSON bodies.
Bodies ==
    {ListV(<<>>), DictV(<<>>), NoneV,
     ListV(<<DictV(Madison)>>), ListV(<<DictV(ErrorKeyed)>>), ListV(<<NumV(5)>>),
     DictV(Madison), DictV(ZipMadison), DictV(ErrorKeyed)}

\* What response.json() does.
JsonOutcomes == {Return(b) : b \in Bodies} \cup {Raise(e) : e \in JsonExceptions}

\* Every behaviour of the upstream for one GET (SpecFetch).
FetchUpstreams ==
    {GetRaises(e) : e \in TransportExceptions}
    \cup {Response(c, j) : c \in MinStatus..MaxStatus, j \in JsonOutcomes}

\* The behaviours of the upstream a run of the program draws from.
RunUpstreams ==
    {GetRaises("ReadTimeout"), GetRaises("ConnectionError"),
     Response(401, Return(DictV(<<>>))), Response(500, Return(DictV(<<>>))),
     Response(200, Return(ListV(<<>>))),
     Response(200, Return(ListV(<<DictV(Madison)>>))),
     Response(200, Return(DictV(ZipMadison))),
     Response(200, Return(DictV(ErrorKeyed))),
     Response(200, Raise("JSONDecodeError"))}

\* Location arguments of a run: a zip code and a city.
SampleLocations == {<<"0", "7", "0", "0", "7">>, <<"a", "a">>}
ArgLists == UNION {[1..n -> SampleLocations] : n \in 0..MaxInputs}

\* Every string over the alphabet up to MaxLen characters.
Strings == UNION {[1..n -> Alphabet] : n \in 0..MaxLen}

\* Results handed to format_location: location records as get_location_info
\* builds them, and error records.
LocationRecords ==
    {DictV("name" :> StrV(nm) @@ "lat" :> la @@ "lon" :> lo @@ "state" :> st
           @@ "country" :> StrV("US")) :
        nm \in {"Madison", "New York", ""}, la \in {NumV(43), NumV(0), StrV("")},
        lo \in {NumV(-89), NumV(120), StrV("")},
        st \in {StrV("WI"), StrV(""), NoneV}}
ErrorMessages ==
    {"API request timed out", "API connection failed", "Invalid API key",
     "API rate limit exceeded", "No data returned from API", "Unexpected API error"}
    \cup {HttpErrorMessage(c) : c \in {400, 404, 500, 503}}
FormatInputs == LocationRecords \cup {ErrorRecord(m) : m \in ErrorMessages \cup {""}}

(***************************************************************************)
(* State.                                                                  *)
(***************************************************************************)
VARIABLES
    apiKey,     \* the value os.environ.get('OPENWEATHER_API_KEY') gives
    argv,       \* the --locations arguments
    pc,         \* of a run: "import", "main", "lookup", "waiting", "print", "exited";
                \* of a single call considered alone: "call", "returned"
    requests,   \* the GET requests issued so far, in order
    results,    \* the list process_locations has built so far
    stdout,     \* the lines printed so far
    exitCode,   \* the exit code, once pc = "exited" (-1 before)
    uncaught,   \* the exception that ended the process, "none" otherwise
    call,       \* a single function call considered alone: the function and its arguments
    ret         \* what that call returned

vars == <<apiKey, argv, pc, requests, results, stdout, exitCode, uncaught, call, ret>>

NoCall == [fn |-> "none"]
NotReturned == [raised |-> FALSE, val |-> NoneV, exc |-> "pending"]

(***************************************************************************)
(* A run of the program.                                                   *)
(***************************************************************************)
Init ==
    /\ apiKey \in Keys
    /\ argv \in ArgLists
    /\ pc = "import"
    /\ requests = <<>>
    /\ results = <<>>
    /\ stdout = <<>>
    /\ exitCode = -1
    /\ uncaught = "none"
    /\ call = NoCall
    /\ ret = NotReturned

\* MissingCredential testing for None alone.
MissingCredential_NoneOnly(key) == key.kind = "none"

\* if not API_KEY
MissingCredential(key) == ~Truthy(key)

\* The module-level code: the credential check.
ImportModule ==
    /\ pc = "import"
    /\ IF MissingCredential(apiKey)
       THEN pc' = "exited" /\ exitCode' = 1 /\ uncaught' = "ValueError"
       ELSE pc' = "main" /\ UNCHANGED <<exitCode, uncaught>>
    /\ UNCHANGED <<apiKey, argv, requests, results, stdout, call, ret>>

\* main up to parse_args: nargs='+' refuses an empty list (usage error, exit 2).
ParseArgs ==
    /\ pc = "main"
    /\ IF Len(argv) = 0
       THEN pc' = "exited" /\ exitCode' = 2
       ELSE pc' = "lookup" /\ UNCHANGED exitCode
    /\ UNCHANGED <<apiKey, argv, requests, results, stdout, uncaught, call, ret>>

\* process_locations reaches the next location: get_location_info strips and
\* classifies it and requests.get sends the request.
SendRequest ==
    /\ pc = "lookup"
    /\ Len(results) < Len(argv)
    /\ LET i == Len(results) + 1
           rq == RequestOf(argv[i], apiKey)
       IN  requests' = Append(requests,
                [input |-> i, endpoint |-> rq.endpoint, params |-> rq.params])
    /\ pc' = "waiting"
    /\ UNCHANGED <<apiKey, argv, results, stdout, exitCode, uncaught, call, ret>>

\* requests.get ends as the upstream decides; the rest of fetch_api_data and of
\* get_location_info runs, and the list comprehension takes the result or the
\* exception leaves main.
Receive ==
    /\ pc = "waiting"
    /\ \E u \in RunUpstreams :
          LET i == Len(results) + 1
              r == GetLocationInfo(argv[i], apiKey, u)
          IN  IF r.raised
              THEN /\ pc' = "exited" /\ exitCode' = 1 /\ uncaught' = r.exc
                   /\ UNCHANGED results
              ELSE /\ results' = Append(results, r.val)
                   /\ pc' = IF i = Len(argv) THEN "print" ELSE "lookup"
                   /\ UNCHANGED <<exitCode, uncaught>>
    /\ UNCHANGED <<apiKey, argv, requests, stdout, call, ret>>

\* PrintLine walking the results from the last to the first.
PrintLine_Reversed ==
    /\ pc = "print"
    /\ Len(stdout) < Len(results)
    /\ LET j == Len(stdout) + 1
           f == FormatLocation(results[Len(results) - Len(stdout)])
       IN  IF f.raised
           THEN /\ pc' = "exited" /\ exitCode' = 1 /\ uncaught' = f.exc
                /\ UNCHANGED stdout
           ELSE /\ stdout' = Append(stdout, PyStr(f.val))
                /\ IF j = Len(results)
                   THEN pc' = "exited" /\ exitCode' = 0
                   ELSE pc' = "print" /\ UNCHANGED exitCode
                /\ UNCHANGED uncaught
    /\ UNCHANGED <<apiKey, argv, requests, results, call, ret>>

\* One turn of main's loop: print(format_location(result)).
PrintLine ==
    /\ pc = "print"
    /\ Len(stdout) < Len(results)
    /\ LET j == Len(stdout) + 1
           f == FormatLocation(results[j])
       IN  IF f.raised
           THEN /\ pc' = "exited" /\ exitCode' = 1 /\ uncaught' = f.exc
                /\ UNCHANGED stdout
           ELSE /\ stdout' = Append(stdout, PyStr(f.val))
                /\ IF j = Len(results)
                   THEN pc' = "exited" /\ exitCode' = 0
                   ELSE pc' = "print" /\ UNCHANGED exitCode
                /\ UNCHANGED uncaught
    /\ UNCHANGED <<apiKey, argv, requests, results, call, ret>>

Next == ImportModule \/ ParseArgs \/ SendRequest \/ Receive \/ PrintLine

Spec == Init /\ [][Next]_vars

(***************************************************************************)
(* get_location_info up to its request, on every string: a run that has    *)
(* the credential and one argument, taken from the point where             *)
(* process_locations reaches the argument.                                 *)
(***************************************************************************)
InitClassify ==
    /\ apiKey = SetKey
    /\ argv \in {<<s>> : s \in Strings}
    /\ pc = "lookup"
    /\ requests = <<>>
    /\ results = <<>>
    /\ stdout = <<>>
    /\ exitCode = -1
    /\ uncaught = "none"
    /\ call = NoCall
    /\ ret = NotReturned

SpecClassify == InitClassify /\ [][SendRequest]_vars

(***************************************************************************)
(* fetch_api_data called once, on either endpoint, against every behaviour *)
(* of the upstream.                                                        *)
(***************************************************************************)
InitFetch ==
    /\ call \in {[fn |-> "fetch_api_data", endpoint |-> e, upstream |-> u] :
                    e \in {"direct", "zip"}, u \in FetchUpstreams}
    /\ ret = NotReturned
    /\ pc = "call"
    /\ apiKey = SetKey
    /\ argv = <<>>
    /\ requests = <<>>
    /\ results = <<>>
    /\ stdout = <<>>
    /\ exitCode = -1
    /\ uncaught = "none"

CallFetchApiData ==
    /\ pc = "call"
    /\ call.fn = "fetch_api_data"
    /\ ret' = FetchApiData(call.endpoint, call.upstream)
    /\ pc' = "returned"
    /\ UNCHANGED <<apiKey, argv, requests, results, stdout, exitCode, uncaught, call>>

SpecFetch == InitFetch /\ [][CallFetchApiData]_vars

(***************************************************************************)
(* format_location called once, on every result record.                    *)
(***************************************************************************)
InitFormat ==
    /\ call \in {[fn |-> "format_location", result |-> r] : r \in FormatInputs}
    /\ ret = NotReturned
    /\ pc = "call"
    /\ apiKey = SetKey
    /\ argv = <<>>
    /\ requests = <<>>
    /\ results = <<>>
    /\ stdout = <<>>
    /\ exitCode = -1
    /\ uncaught = "none"

CallFormatLocation ==
    /\ pc = "call"
    /\ call.fn = "format_location"
    /\ ret' = FormatLocation(call.result)
    /\ pc' = "returned"
    /\ UNCHANGED <<apiKey, argv, requests, results, stdout, exitCode, uncaught, call>>

SpecFormat == InitFormat /\ [][CallFormatLocation]_vars

(***************************************************************************)
(* Properties.                                                             *)
(***************************************************************************)

\* The string s without its leading and trailing whitespace, stated without
\* the program's strip: the part of s between its first and its last
\* character that is not whitespace.
Trimmed(s) ==
    LET solid == {i \in 1..Len(s) : s[i] \notin Whitespace}
    IN  IF solid = {} THEN <<>>
        ELSE SubSeq(s, CHOOSE i \in solid : \A j \in solid : i <= j,
                       CHOOSE i \in solid : \A j \in solid : j <= i)

\* Exactly five characters, each one of 0-9.
FiveAsciiDigits(t) == Len(t) = 5 /\ \A i \in 1..5 : t[i] \in AsciiDigits

\* C1: get_location_info strips the input and issues a "zip" query with
\* zip = "<trimmed>,US" if and only if the trimmed string is exactly five
\* characters, each one of 0-9; for every other string it issues a "direct"
\* query with q = "<trimmed>,US" and limit = 1; every input yields a query.
C1_ZipIffFiveAsciiDigits ==
    pc = "waiting" =>
        LET t == Trimmed(argv[1])
            rq == requests[1]
        IN  /\ Len(requests) = 1
            /\ IF FiveAsciiDigits(t)
               THEN /\ rq.endpoint = "zip"
                    /\ DOMAIN rq.params = {"zip", "appid"}
                    /\ rq.params["zip"] = t \o CommaUS
               ELSE /\ rq.endpoint = "direct"
                    /\ DOMAIN rq.params = {"q", "limit", "appid"}
                    /\ rq.params["q"] = t \o CommaUS
                    /\ rq.params["limit"] = 1

\* The error record fetch_api_data owes an HTTP error status.
HttpErrorOwed(code) ==
    ErrorRecord(CASE code = 401 -> "Invalid API key"
                  [] code = 429 -> "API rate limit exceeded"
                  [] OTHER -> "API error: " \o IntToStr(code))

FetchReturned == pc = "returned" /\ call.fn = "fetch_api_data"

NoData == ErrorRecord("No data returned from API")

\* C3: for every response with status < 400 whose body decodes,
\* fetch_api_data returns "No data returned from API" for an empty list or
\* empty object, and for every other body returns a value, never raising:
\* that error record or the payload (the first element of the list for
\* "direct", the object itself for "zip").
C3_DecodedBodyReturnsValue ==
    (FetchReturned /\ call.upstream.type = "response" /\ call.upstream.status < 400
        /\ ~call.upstream.json.raised)
        => LET body == call.upstream.json.val
           IN  IF body \in {ListV(<<>>), DictV(<<>>)}
               THEN ret = Return(NoData)
               ELSE /\ ~ret.raised
                    /\ \/ ret.val = NoData
                       \/ /\ call.endpoint = "direct"
                          /\ body.kind = "list"
                          /\ ret.val = body.items[1]
                       \/ /\ call.endpoint = "zip"
                          /\ body.kind = "dict"
                          /\ ret.val = body

\* The transport exceptions that are timeouts, and those that are connection
\* failures, in the requests library.
TimeoutKinds == {"ReadTimeout", "ConnectTimeout"}
ConnectionKinds == {"ConnectionError", "SSLError", "ConnectTimeout"}

\* C4: when requests.get raises, fetch_api_data returns "API request timed
\* out" for a timeout (a connect timeout included), "API connection failed"
\* for any other connection failure, and "Unexpected API error" for every
\* other transport exception.
C4_TransportErrors ==
    (FetchReturned /\ call.upstream.type = "raise")
        => ret = Return(ErrorRecord(
                    IF call.upstream.exc \in TimeoutKinds THEN "API request timed out"
                    ELSE IF call.upstream.exc \in ConnectionKinds
                        THEN "API connection failed"
                    ELSE "Unexpected API error"))

C4_Witness ==
    /\ FetchReturned
    /\ call.upstream = GetRaises("ConnectTimeout")
    /\ ret = Return(ErrorRecord("API request timed out"))

\* A run that got past start-up: the credential is set and there are arguments.
Started == Truthy(apiKey) /\ Len(argv) > 0

\* The line print shows for a result.
LineOf(result) == PyStr(FormatLocation(result).val)

\* C5: for every non-empty list of N inputs and every combination of
\* upstream outcomes, the run prints exactly N lines, the i-th being
\* format_location of the i-th input's result, and exits with code 0.
C5_NLinesAndExitZero ==
    (pc = "exited" /\ Started)
        => /\ exitCode = 0
           /\ Len(results) = Len(argv)
           /\ Len(stdout) = Len(argv)
           /\ \A i \in 1..Len(argv) : stdout[i] = LineOf(results[i])

\* The closed set of error messages.
ClosedErrorMessages ==
    {"API request timed out", "API connection failed", "Invalid API key",
     "API rate limit exceeded", "No data returned from API", "Unexpected API error"}
    \cup {"API error: " \o IntToStr(c) : c \in MinStatus..MaxStatus}

IsClosedErrorRecord(r) ==
    /\ r.kind = "dict"
    /\ DOMAIN r.fields = {"error"}
    /\ r.fields["error"].kind = "str"
    /\ r.fields["error"].s \in ClosedErrorMessages

IsLocationRecord(r) ==
    /\ r.kind = "dict"
    /\ DOMAIN r.fields = {"name", "lat", "lon", "state", "country"}

\* C6: every result get_location_info returns is an error record whose
\* message is in the closed set, or a location record with exactly the
\* fields name, lat, lon, state, country; a non-empty payload of a
\* successful response always becomes a location record.
C6_ResultIsErrorOrLocation ==
    \A i \in 1..Len(results) :
        IsClosedErrorRecord(results[i]) \/ IsLocationRecord(results[i])

FormatReturned == pc = "returned" /\ call.fn = "format_location"

\* The ", <state>" segment owed a record: present iff state is a non-empty string.
SegmentOwed(state) == IF state.kind = "str" /\ state.s # "" THEN ", " \o state.s ELSE ""

\* C7: format_location returns the message of an error record unchanged, and
\* for a location record "Location: " + name + (", " + state iff state is
\* non-empty) + " - Lat: " + lat + ", Lon: " + lon.
C7_FormatLocation ==
    FormatReturned =>
        LET f == call.result.fields
        IN  IF "error" \in DOMAIN f
            THEN ret = Return(f["error"])
            ELSE ret = Return(StrV("Location: " \o f["name"].s \o SegmentOwed(f["state"])
                                   \o " - Lat: " \o PyStr(f["lat"])
                                   \o ", Lon: " \o PyStr(f["lon"])))

C7_Witness ==
    /\ FormatReturned
    /\ call.result.fields = ("name" :> StrV("Madison") @@ "lat" :> NumV(43)
                             @@ "lon" :> NumV(-89) @@ "state" :> StrV("")
                             @@ "country" :> StrV("US"))
    /\ ret = Return(StrV("Location: Madison - Lat: 43, Lon: -89"))

\* C8: when the credential is absent or empty the process fails at start-up:
\* no argument is classified, no request is issued, no line is printed.
C8_NoCredentialNoProcessing ==
    apiKey \in {NoneV, StrV("")}
        => /\ pc \in {"import", "exited"}
           /\ requests = <<>>
           /\ results = <<>>
           /\ stdout = <<>>
           /\ pc = "exited" => exitCode = 1

C8_Witness ==
    /\ apiKey = StrV("")
    /\ Len(argv) = 2
    /\ pc = "exited"
    /\ uncaught = "ValueError"

\* The number of requests issued for the i-th input.
RequestsFor(i) == Cardinality({k \in 1..Len(requests) : requests[k].input = i})

\* C9: over the whole run, exactly one GET is issued for every input,
\* whatever its outcome.
C9_OneRequestPerInput ==
    (pc = "exited" /\ Started) => \A i \in 1..Len(argv) : RequestsFor(i) = 1

\* C10 as stated: the line of input i is printed before the request of any
\* later input j is issued.
C10_LineBeforeNextRequest ==
    \A k \in 1..Len(requests) : Len(stdout) >= requests[k].input - 1

\* C10 amended: inputs are resolved strictly one after the other (the
\* request of input j is issued only once the results of all inputs before
\* it are in), no line is printed before every input has been resolved, and
\* the lines are the results' lines in input order.
C10_ResolveAllThenPrint ==
    /\ \A k \in 1..Len(requests) : requests[k].input = k
    /\ Len(requests) \in {Len(results), Len(results) + 1}
    /\ pc = "waiting" => Len(requests) = Len(results) + 1
    /\ pc \in {"lookup", "print"} => Len(requests) = Len(results)
    /\ Len(stdout) > 0 => Len(results) = Len(argv) /\ Len(requests) = Len(argv)
    /\ Len(stdout) <= Len(results)
    /\ \A i \in 1..Len(stdout) : stdout[i] = LineOf(results[i])

C10_Witness ==
    /\ Len(argv) = 2
    /\ Len(requests) = 2
    /\ Len(stdout) = 1
    /\ results[1] # results[2]

====
